---- MODULE Spec2Model ----
(***************************************************************************)
(* Model of the mmu crate: the x86_64 page-table entry bitfield            *)
(* (src/src/x86_64/page_table.rs, src/src/macros.rs) and the table walker  *)
(* RecursiveMapper::entry (src/src/x86_64/recursive_mapper.rs).            *)
(*                                                                         *)
(* A u64 is represented by the set of its set bit positions (a subset of   *)
(* 0..63): bitwise and/or/not are intersection/union/complement, and the   *)
(* arithmetic the code uses (+, <, % and / by the power-of-two extents) is *)
(* defined on that representation with 64-bit wrap-around.                 *)
(***************************************************************************)
EXTENDS Integers, FiniteSets, Sequences, TLC

VARIABLES
    mem,          \* memory: table pointer (u64) -> [0..511 -> entry word]
    current_addr, \* the frame allocator's next frame (test closure state)
    pc,           \* position of the walker inside entry()
    virt_addr,    \* argument of the running / last call (as passed)
    level,        \* argument of the running / last call (u8)
    va,           \* virt_addr with the top 16 bits masked off
    cur,          \* the entry the walker holds: <<table pointer, index>>
    curLevel,     \* level of the table that entry lives in (4..1)
    frame,        \* local `frame` of ensure_subtable
    result,       \* result of the last call
    allocCalls,   \* invocations of alloc_frame in the running call
    allocFailed,  \* an invocation of alloc_frame failed in the running call
    rootZero,     \* the root table was all zero when the call started
    repeat,       \* the call repeats the previous Ok call on an unmodified tree
    prevSlot,     \* slot the previous call returned (when repeat)
    linked,       \* parent entries the running call has linked, in order
    ncalls,       \* number of calls made
    nops,         \* number of caller modifications made
    e,            \* a stand-alone Entry word (entry accessor operations)
    eop,          \* the last accessor operation applied to e
    eops          \* number of accessor operations applied to e

vars == <<mem, current_addr, pc, virt_addr, level, va, cur, curLevel, frame,
          result, allocCalls, allocFailed, rootZero, repeat, prevSlot, linked,
          ncalls, nops, e, eop, eops>>

walkerVars == <<mem, current_addr, pc, virt_addr, level, va, cur, curLevel,
                frame, result, allocCalls, allocFailed, rootZero, repeat,
                prevSlot, linked, ncalls, nops>>

entryVars == <<e, eop, eops>>

(***************************************************************************)
(* 64-bit words                                                            *)
(***************************************************************************)
WordBits == 64

BitIdx == 0 .. (WordBits - 1)

Zero == {}

And(a, b) == a \cap b

Or(a, b) == a \cup b

Not(a) == BitIdx \ a

\* 1 << n on a u64 (n < 64)
Shl1(n) == {n}

\* a < b on u64
Less(a, b) == \E i \in b \ a : \A j \in BitIdx : j > i => (j \in a <=> j \in b)

\* a + b on u64, wrapping
RECURSIVE AddFrom(_, _, _, _)
AddFrom(a, b, i, carry) ==
    IF i >= WordBits THEN {}
    ELSE LET n == (IF i \in a THEN 1 ELSE 0) + (IF i \in b THEN 1 ELSE 0)
                  + (IF carry THEN 1 ELSE 0)
         IN  (IF n % 2 = 1 THEN {i} ELSE {}) \cup AddFrom(a, b, i + 1, n >= 2)

Add(a, b) == AddFrom(a, b, 0, FALSE)

\* exponent of a power of two
Log2(m) == CHOOSE k \in m : TRUE

\* a % m and a / m for m a power of two
Mod(a, m) == {i \in a : i < Log2(m)}

Div(a, m) == {i - Log2(m) : i \in {j \in a : j >= Log2(m)}}

\* a * b for powers of two (no overflow at the sizes used)
MulPow2(a, b) == {Log2(a) + Log2(b)}

RECURSIVE Pow2(_)
Pow2(n) == IF n = 0 THEN 1 ELSE 2 * Pow2(n - 1)

\* `as usize` / `as u8` of a small word
RECURSIVE ToInt(_)
ToInt(w) == IF w = {} THEN 0
            ELSE LET i == CHOOSE k \in w : TRUE IN Pow2(i) + ToInt(w \ {i})

\* `as u64` of a small integer
FromInt(n) == {i \in 0 .. 15 : (n \div Pow2(i)) % 2 = 1}

(***************************************************************************)
(* macros.rs                                                               *)
(***************************************************************************)
get_bit(field, b) == And(field, Shl1(b)) # Zero

set_bit_macro_stuck(field, b, enabled) ==
    IF enabled THEN Or(field, Shl1(b)) ELSE field

set_bit_macro_wipe(field, b, enabled) ==
    IF enabled THEN Shl1(b) ELSE And(field, Not(Shl1(b)))

set_bit_macro(field, b, enabled) ==
    IF enabled THEN Or(field, Shl1(b)) ELSE And(field, Not(Shl1(b)))

(***************************************************************************)
(* page_table.rs: Bit, Entry                                               *)
(***************************************************************************)
Present == 0
Writable == 1
User == 2
Direct == 3
Nocache == 4
Accessed == 5
Dirty == 6
Huge == 7
Global == 8
Noexec == 63

Bit == {Present, Writable, User, Direct, Nocache, Accessed, Dirty, Huge,
        Global, Noexec}

\* 0x000ffffffffff000
ADDR_MASK == 12 .. 51

\* 0x0e00
AVAIL_MASK == 9 .. 11

\* 0xfff0_0000_0000_0000
ADDR_LIMIT == 52 .. 63

\* 0x1000
ADDR_ALIGN == {12}

Entry_new == Zero

Entry_clear(w) == Zero

address(w) == And(w, ADDR_MASK)

\* the two assertions of set_address
set_address_ok(a) == Mod(a, ADDR_ALIGN) = Zero /\ Less(a, ADDR_LIMIT)

set_address(w, a) == Or(And(w, Not(ADDR_MASK)), a)

avail(w) == ToInt(Div(And(w, AVAIL_MASK), Shl1(9)))

set_avail_ok(val) == ~(val > 7)

set_avail(w, val) ==
    Or(And(w, Not(AVAIL_MASK)), {i + 9 : i \in FromInt(val)})

bit(w, b) == get_bit(w, b)

modify_bit(w, b, val) == set_bit_macro(w, b, val)

set_bit(w, b) == modify_bit(w, b, TRUE)

unset_bit(w, b) == modify_bit(w, b, FALSE)

(***************************************************************************)
(* page_table.rs: PageTable                                                *)
(***************************************************************************)
PT_LEN == 512

PageTable_new == [i \in 0 .. (PT_LEN - 1) |-> Entry_new]

PageTable_clear_first(t) == [t EXCEPT ![0] = Entry_clear(t[0])]

PageTable_clear(t) == [i \in DOMAIN t |-> Entry_clear(t[i])]

(***************************************************************************)
(* recursive_mapper.rs: geometry                                           *)
(***************************************************************************)
\* 0x1000
PAGE_SIZE == {12}

\* 512
PT_SIZE == {9}

PT1_EXTENT == MulPow2(PAGE_SIZE, PT_SIZE)

PT2_EXTENT == MulPow2(PT_SIZE, PT1_EXTENT)

PT3_EXTENT == MulPow2(PT_SIZE, PT2_EXTENT)

\* 0xffff_0000_0000_0000
CANON_MASK == 48 .. 63

(***************************************************************************)
(* Bounds of the model                                                     *)
(***************************************************************************)
\* frames the allocator can hand out before it is exhausted
MaxFrames == 3

\* calls of entry() in one run
MaxCalls == 3

\* modifications the caller makes through returned entries in one run
MaxCallerOps == 1

\* accessor operations applied to the stand-alone entry
MaxEntryOps == 1

(***************************************************************************)
(* The capabilities, as the map_tables test supplies them                  *)
(***************************************************************************)
\* base of the memory block the test allocates (page aligned)
memory_addr == {36}

pt4_addr == memory_addr

translate_address(phys) == Add(memory_addr, phys)

\* first frame the test's allocator returns: 0x1000
FIRST_FRAME == {12}

FrameAddr(n) == {i + 12 : i \in FromInt(n)}

TablePtrs == {translate_address(FrameAddr(n)) : n \in 0 .. MaxFrames}

\* the allocator has a frame left inside the memory block
alloc_available(c) == translate_address(c) \in TablePtrs

\* let result = current_addr; current_addr += 0x1000
alloc_next(c) == Add(c, PAGE_SIZE)

(***************************************************************************)
(* recursive_mapper.rs: RecursiveMapper                                    *)
(***************************************************************************)
EntryAt(m, ref) == m[ref[1]][ref[2]]

WriteEntry(m, ref, w) == [m EXCEPT ![ref[1]][ref[2]] = w]

NoResult == [kind |-> "None", slot |-> <<>>]

Ok(ref) == [kind |-> "Ok", slot |-> ref]

Err(kind) == [kind |-> kind, slot |-> <<>>]

\* the five assertions opening entry()
entry_asserts(v, l) ==
    /\ ~(l < 1 /\ l > 4)
    /\ (l # 1 \/ Mod(v, PAGE_SIZE) = Zero)
    /\ (l # 2 \/ Mod(v, PT1_EXTENT) = Zero)
    /\ (l # 3 \/ Mod(v, PT2_EXTENT) = Zero)
    /\ (l # 4 \/ Mod(v, PT3_EXTENT) = Zero)

canonical_mask(v) == And(v, Not(CANON_MASK))

\* Index<usize> for PageTable: the array access is bounds-checked
index_in_bounds(i) == i < PT_LEN

\* index into the table of level lvl
table_index_copy(a, lvl) ==
    IF lvl = 4 THEN ToInt(Div(a, PT3_EXTENT))
    ELSE IF lvl = 3 THEN ToInt(Div(Mod(a, PT3_EXTENT), PT2_EXTENT))
    ELSE ToInt(Div(Mod(a, PT2_EXTENT), PT1_EXTENT))

table_index(a, lvl) ==
    IF lvl = 4 THEN ToInt(Div(a, PT3_EXTENT))
    ELSE IF lvl = 3 THEN ToInt(Div(Mod(a, PT3_EXTENT), PT2_EXTENT))
    ELSE IF lvl = 2 THEN ToInt(Div(Mod(a, PT2_EXTENT), PT1_EXTENT))
    ELSE ToInt(Div(Mod(a, PT1_EXTENT), PAGE_SIZE))

\* entry() returns the entry of the table of level lvl: the `if level == n`
\* tests after pt4, pt3 and pt2, and the unconditional return after pt1
returns_at_shifted(l, lvl) == lvl = 1 \/ l = lvl + 1

returns_at(l, lvl) == lvl = 1 \/ l = lvl

\* ensure_subtable: `if !entry.bit(Bit::Present)`
needs_subtable(w) == ~bit(w, Present)

\* ensure_subtable: `else if entry.bit(Bit::Huge)`
is_overlap_direct(w) == bit(w, Direct)

is_overlap(w) == bit(w, Huge)

AllZero(t) == \A i \in DOMAIN t : t[i] = Zero

(***************************************************************************)
(* Inputs                                                                  *)
(***************************************************************************)
\* 0xffff_8000_0000_0000, the address of the map_tables test
VA_TEST == 47 .. 63

\* 0x0000_8000_0000_0000: VA_TEST without its sign-extension bits
VA_LOW == {47}

\* 0x0000_0000_4040_3000: root index 0, then indices 1, 2 and 3
VA_MIX == {30, 22, 13, 12}

VAs == {VA_TEST, VA_LOW, VA_MIX}

\* level is a u8; 0 and 5 stand for the values outside 1..4
Levels == 0 .. 5

\* what every word of a frame holds before the walker first touches it
\* (stale contents: a present huge entry with an address)
STALE_WORD == {Present, Huge, 12, 13}

\* flags the caller changes through a returned entry
CallerBits == {Present, Huge}

(***************************************************************************)
(* Initial state: RecursiveMapper::new over a zeroed root table            *)
(***************************************************************************)
EntryIdle ==
    /\ e = Entry_new
    /\ eop = [kind |-> "none", arg |-> Zero, before |-> Zero, halted |-> FALSE]
    /\ eops = 0

Init ==
    /\ mem = [p \in TablePtrs |->
                 IF p = pt4_addr THEN PageTable_new
                 ELSE [i \in 0 .. (PT_LEN - 1) |-> STALE_WORD]]
    /\ current_addr = FIRST_FRAME
    /\ pc = "idle"
    /\ virt_addr = Zero
    /\ level = 0
    /\ va = Zero
    /\ cur = <<>>
    /\ curLevel = 0
    /\ frame = Zero
    /\ result = NoResult
    /\ allocCalls = 0
    /\ allocFailed = FALSE
    /\ rootZero = TRUE
    /\ repeat = FALSE
    /\ prevSlot = <<>>
    /\ linked = <<>>
    /\ ncalls = 0
    /\ nops = 0
    /\ EntryIdle

(***************************************************************************)
(* entry(): lines 85-99: the assertions, the mask, the root index          *)
(***************************************************************************)
EntryCall(v, l) ==
    /\ pc \in {"idle", "done"}
    /\ ncalls < MaxCalls
    /\ ncalls' = ncalls + 1
    /\ virt_addr' = v
    /\ level' = l
    /\ allocCalls' = 0
    /\ allocFailed' = FALSE
    /\ rootZero' = AllZero(mem[pt4_addr])
    /\ repeat' = (pc = "done" /\ result.kind = "Ok" /\ virt_addr = v /\ level = l)
    /\ prevSlot' = IF repeat' THEN result.slot ELSE <<>>
    /\ linked' = <<>>
    /\ frame' = Zero
    /\ IF ~entry_asserts(v, l)
       THEN /\ pc' = "panic"
            /\ va' = Zero
            /\ cur' = <<>>
            /\ curLevel' = 0
            /\ result' = NoResult
       ELSE /\ va' = canonical_mask(v)
            /\ cur' = <<pt4_addr, table_index(va', 4)>>
            /\ curLevel' = 4
            /\ IF ~index_in_bounds(cur'[2])
               THEN pc' = "panic" /\ result' = NoResult
               ELSE IF returns_at(l, 4)
               THEN pc' = "done" /\ result' = Ok(cur')
               ELSE pc' = "es_present" /\ result' = NoResult
    /\ UNCHANGED <<mem, current_addr, nops>>
    /\ UNCHANGED entryVars

(***************************************************************************)
(* ensure_subtable(): lines 47-68                                          *)
(***************************************************************************)
\* line 48: if !entry.bit(Bit::Present)
EnsurePresent ==
    /\ pc = "es_present"
    /\ pc' = IF needs_subtable(EntryAt(mem, cur)) THEN "alloc" ELSE "es_huge"
    /\ UNCHANGED <<mem, current_addr, virt_addr, level, va, cur, curLevel,
                   frame, result, allocCalls, allocFailed, rootZero, repeat,
                   prevSlot, linked, ncalls, nops>>
    /\ UNCHANGED entryVars

\* line 49: let frame = (self.alloc_frame)()?  -- the allocator returns a frame
AllocOk ==
    /\ pc = "alloc"
    /\ alloc_available(current_addr)
    /\ frame' = current_addr
    /\ current_addr' = alloc_next(current_addr)
    /\ allocCalls' = allocCalls + 1
    /\ pc' = "clear"
    /\ UNCHANGED <<mem, virt_addr, level, va, cur, curLevel, result,
                   allocFailed, rootZero, repeat, prevSlot, linked, ncalls,
                   nops>>
    /\ UNCHANGED entryVars

\* line 49: the allocator returns Err(NoMemory), which `?` propagates
AllocFail ==
    /\ pc = "alloc"
    /\ allocCalls' = allocCalls + 1
    /\ allocFailed' = TRUE
    /\ result' = Err("NoMemory")
    /\ pc' = "done"
    /\ UNCHANGED <<mem, current_addr, virt_addr, level, va, cur, curLevel,
                   frame, rootZero, repeat, prevSlot, linked, ncalls, nops>>
    /\ UNCHANGED entryVars

\* lines 50-52: translate the frame and clear the table there
ClearTable ==
    /\ pc = "clear"
    /\ LET addr == translate_address(frame)
       IN  mem' = [mem EXCEPT ![addr] = PageTable_clear(@)]
    /\ pc' = "set_address"
    /\ UNCHANGED <<current_addr, virt_addr, level, va, cur, curLevel, frame,
                   result, allocCalls, allocFailed, rootZero, repeat, prevSlot,
                   linked, ncalls, nops>>
    /\ UNCHANGED entryVars

\* line 53: entry.set_address(frame)
SetAddress ==
    /\ pc = "set_address"
    /\ IF set_address_ok(frame)
       THEN /\ mem' = WriteEntry(mem, cur, set_address(EntryAt(mem, cur), frame))
            /\ pc' = "set_present"
       ELSE /\ mem' = mem
            /\ pc' = "panic"
    /\ UNCHANGED <<current_addr, virt_addr, level, va, cur, curLevel, frame,
                   result, allocCalls, allocFailed, rootZero, repeat, prevSlot,
                   linked, ncalls, nops>>
    /\ UNCHANGED entryVars

\* line 56: entry.set_bit(Bit::Present)
SetPresent ==
    /\ pc = "set_present"
    /\ mem' = WriteEntry(mem, cur, set_bit(EntryAt(mem, cur), Present))
    /\ linked' = Append(linked, <<cur, frame>>)
    /\ pc' = "set_writable"
    /\ UNCHANGED <<current_addr, virt_addr, level, va, cur, curLevel, frame,
                   result, allocCalls, allocFailed, rootZero, repeat, prevSlot,
                   ncalls, nops>>
    /\ UNCHANGED entryVars

\* line 60: entry.set_bit(Bit::Writable)
SetWritable ==
    /\ pc = "set_writable"
    /\ mem' = WriteEntry(mem, cur, set_bit(EntryAt(mem, cur), Writable))
    /\ pc' = "set_user"
    /\ UNCHANGED <<current_addr, virt_addr, level, va, cur, curLevel, frame,
                   result, allocCalls, allocFailed, rootZero, repeat, prevSlot,
                   linked, ncalls, nops>>
    /\ UNCHANGED entryVars

\* lines 61-62: entry.set_bit(Bit::User); Ok(())
SetUser ==
    /\ pc = "set_user"
    /\ mem' = WriteEntry(mem, cur, set_bit(EntryAt(mem, cur), User))
    /\ pc' = "descend"
    /\ UNCHANGED <<current_addr, virt_addr, level, va, cur, curLevel, frame,
                   result, allocCalls, allocFailed, rootZero, repeat, prevSlot,
                   linked, ncalls, nops>>
    /\ UNCHANGED entryVars

\* lines 63-67: else if entry.bit(Bit::Huge) { Err(Overlap) } else { Ok(()) }
EnsureHuge ==
    /\ pc = "es_huge"
    /\ IF is_overlap(EntryAt(mem, cur))
       THEN pc' = "done" /\ result' = Err("Overlap")
       ELSE pc' = "descend" /\ result' = result
    /\ UNCHANGED <<mem, current_addr, virt_addr, level, va, cur, curLevel,
                   frame, allocCalls, allocFailed, rootZero, repeat, prevSlot,
                   linked, ncalls, nops>>
    /\ UNCHANGED entryVars

(***************************************************************************)
(* descend_entry() lines 72-74, then entry()'s next index and level test   *)
(* (lines 101-105, 108-113, 115-117)                                       *)
(***************************************************************************)
Descend ==
    /\ pc = "descend"
    /\ LET phys_addr == address(EntryAt(mem, cur))
           table == translate_address(phys_addr)
           lvl == curLevel - 1
       IN  /\ cur' = <<table, table_index(va, lvl)>>
           /\ curLevel' = lvl
           /\ IF ~index_in_bounds(cur'[2])
              THEN pc' = "panic" /\ result' = result
              ELSE IF returns_at(level, lvl)
              THEN pc' = "done" /\ result' = Ok(cur')
              ELSE pc' = "es_present" /\ result' = result
    /\ UNCHANGED <<mem, current_addr, virt_addr, level, va, frame, allocCalls,
                   allocFailed, rootZero, repeat, prevSlot, linked, ncalls,
                   nops>>
    /\ UNCHANGED entryVars

(***************************************************************************)
(* The caller, between calls: accessor operations on the returned entry    *)
(***************************************************************************)
CallerWrite(w) ==
    /\ pc \in {"idle", "done"}
    /\ result.kind = "Ok"
    /\ nops < MaxCallerOps
    /\ nops' = nops + 1
    /\ mem' = WriteEntry(mem, result.slot, w)
    /\ pc' = "idle"
    \* the finished call's arguments, locals and bookkeeping are dead here
    /\ virt_addr' = Zero
    /\ level' = 0
    /\ va' = Zero
    /\ cur' = <<>>
    /\ curLevel' = 0
    /\ frame' = Zero
    /\ allocCalls' = 0
    /\ allocFailed' = FALSE
    /\ rootZero' = FALSE
    /\ repeat' = FALSE
    /\ prevSlot' = <<>>
    /\ linked' = <<>>
    /\ UNCHANGED <<current_addr, result, ncalls>>
    /\ UNCHANGED entryVars

CallerSetBit(b) == CallerWrite(set_bit(EntryAt(mem, result.slot), b))

CallerUnsetBit(b) == CallerWrite(unset_bit(EntryAt(mem, result.slot), b))

CallerClear == CallerWrite(Entry_clear(EntryAt(mem, result.slot)))

Next ==
    \/ \E v \in VAs, l \in Levels : EntryCall(v, l)
    \/ EnsurePresent
    \/ AllocOk
    \/ AllocFail
    \/ ClearTable
    \/ SetAddress
    \/ SetPresent
    \/ SetWritable
    \/ SetUser
    \/ EnsureHuge
    \/ Descend
    \/ \E b \in CallerBits : CallerSetBit(b)
    \/ \E b \in CallerBits : CallerUnsetBit(b)
    \/ CallerClear

Spec == Init /\ [][Next]_vars

(***************************************************************************)
(* The entry accessors on a stand-alone Entry (page_table.rs lines 77-132) *)
(***************************************************************************)
\* bits the sample words and addresses are built from: flags, the avail
\* field, both ends of the address field, and the bits above it
SampleBits == {Present, Huge, 9, 11, 12, 51, 52, Noexec}

\* arguments given to set_address: 0x4242000 of the int_consistency test,
\* the extremes of the address field, a misaligned address, and addresses
\* with bits above bit 51
SampleAddrs ==
    {Zero, {25, 22, 18, 13}, ADDR_MASK, {12}, {51}, {3, 12}, {52}, {12, 62},
     {Noexec}, ADDR_LIMIT, BitIdx \ {0}}

\* arguments given to set_avail (u8): the field's values and one above
SampleAvail == 0 .. 8

EntryInit ==
    /\ mem = <<>>
    /\ current_addr = FIRST_FRAME
    /\ pc = "entry_ops"
    /\ virt_addr = Zero
    /\ level = 0
    /\ va = Zero
    /\ cur = <<>>
    /\ curLevel = 0
    /\ frame = Zero
    /\ result = NoResult
    /\ allocCalls = 0
    /\ allocFailed = FALSE
    /\ rootZero = FALSE
    /\ repeat = FALSE
    /\ prevSlot = <<>>
    /\ linked = <<>>
    /\ ncalls = 0
    /\ nops = 0
    /\ e \in SUBSET SampleBits
    /\ eop = [kind |-> "none", arg |-> Zero, before |-> e, halted |-> FALSE]
    /\ eops = 0

EntryOp(kind, arg, ok, w) ==
    /\ ~eop.halted
    /\ eops < MaxEntryOps
    /\ eops' = eops + 1
    /\ eop' = [kind |-> kind, arg |-> arg, before |-> e, halted |-> ~ok]
    /\ e' = IF ok THEN w ELSE e
    /\ UNCHANGED walkerVars

OpClear == EntryOp("clear", Zero, TRUE, Entry_clear(e))

OpSetAddress(a) == EntryOp("set_address", a, set_address_ok(a), set_address(e, a))

OpSetAvail(val) ==
    EntryOp("set_avail", FromInt(val), set_avail_ok(val), set_avail(e, val))

OpSetBit(b) == EntryOp("set_bit", Shl1(b), TRUE, set_bit(e, b))

OpUnsetBit(b) == EntryOp("unset_bit", Shl1(b), TRUE, unset_bit(e, b))

EntryNext ==
    \/ OpClear
    \/ \E a \in SampleAddrs : OpSetAddress(a)
    \/ \E val \in SampleAvail : OpSetAvail(val)
    \/ \E b \in Bit : OpSetBit(b)
    \/ \E b \in Bit : OpUnsetBit(b)

EntrySpec == EntryInit /\ [][EntryNext]_vars

(***************************************************************************)
(* Properties                                                              *)
(***************************************************************************)
\* extent of one entry of a level-l table, as an exponent: 12, 21, 30, 39
ExtentLog2(l) == 12 + 9 * (l - 1)

AlignedTo(v, l) == v \cap (0 .. (ExtentLog2(l) - 1)) = {}

\* the integer held in bits lo..hi of v
Field(v, lo, hi) == ToInt({i - lo : i \in v \cap (lo .. hi)})

CurEntry == EntryAt(mem, cur)

\* the table an entry links to
Linked(ref) == translate_address(address(EntryAt(mem, ref)))

\* the slot of virt_addr at level l, by its index bits and the links of mem
SlotByBits(v, l) ==
    LET s4 == <<pt4_addr, Field(v, 39, 47)>>
        s3 == <<Linked(s4), Field(v, 30, 38)>>
        s2 == <<Linked(s3), Field(v, 21, 29)>>
        s1 == <<Linked(s2), Field(v, 12, 20)>>
    IN  IF l = 4 THEN s4 ELSE IF l = 3 THEN s3 ELSE IF l = 2 THEN s2 ELSE s1

\* C1: from an all-zero root, with an allocator that does not fail, a call
\* entry(va, level) with level in 1..4 and va aligned to the level's extent
\* does not halt, returns Ok and has invoked the allocator exactly 4 - level
\* times (at most 3).
C1_AllocCount ==
    (rootZero /\ ~allocFailed /\ level \in 1 .. 4 /\ AlignedTo(virt_addr, level))
        => /\ pc # "panic"
           /\ allocCalls <= 3
           /\ pc = "done" => (result.kind = "Ok" /\ allocCalls = 4 - level)

C1_Witness ==
    /\ pc = "done" /\ rootZero /\ ~allocFailed
    /\ level = 1 /\ result.kind = "Ok" /\ allocCalls = 3

\* C2: a call that repeats the previous Ok call, with the tree unmodified in
\* between, returns Ok with the same slot and invokes the allocator 0 times.
C2_Idempotent ==
    (pc = "done" /\ repeat)
        => (result.kind = "Ok" /\ result.slot = prevSlot /\ allocCalls = 0)

\* C3: when ensure_subtable finds the entry it is given Present and Huge,
\* the call returns Overlap next, and from that moment no table word is
\* written and the allocator is not invoked.
C3_Overlap ==
    [][/\ (pc = "es_present" /\ bit(CurEntry, Present) /\ bit(CurEntry, Huge))
            => (pc' = "es_huge" /\ mem' = mem /\ allocCalls' = allocCalls
                /\ current_addr' = current_addr)
       /\ (pc = "es_huge" /\ bit(CurEntry, Present) /\ bit(CurEntry, Huge))
            => (pc' = "done" /\ result'.kind = "Overlap" /\ mem' = mem
                /\ allocCalls' = allocCalls /\ current_addr' = current_addr)
      ]_vars

C3_Witness ==
    /\ pc = "done" /\ result.kind = "Overlap"
    /\ level = 1 /\ curLevel = 2
    /\ bit(CurEntry, Present) /\ bit(CurEntry, Huge)
    /\ allocCalls = 0

\* C4: when the allocator fails on its k-th invocation of a call (k in
\* 1..3), the call returns NoMemory at once, the k-1 entries linked earlier
\* in the call are still Present and hold their frames, and the entry whose
\* sub-table was wanted is untouched and not Present.
C4_NoMemory ==
    [][(pc = "alloc" /\ allocFailed')
            => /\ pc' = "done"
               /\ result'.kind = "NoMemory"
               /\ allocCalls' = allocCalls + 1
               /\ allocCalls' \in 1 .. 3
               /\ Len(linked) = allocCalls
               /\ mem' = mem
               /\ current_addr' = current_addr
               /\ ~bit(EntryAt(mem', cur), Present)
               /\ \A n \in 1 .. Len(linked) :
                     /\ bit(EntryAt(mem', linked[n][1]), Present)
                     /\ address(EntryAt(mem', linked[n][1])) = linked[n][2]
      ]_vars

C4_Witness ==
    /\ pc = "done" /\ result.kind = "NoMemory"
    /\ allocCalls = 3 /\ Len(linked) = 2
    /\ bit(EntryAt(mem, linked[1][1]), Present)
    /\ bit(EntryAt(mem, linked[2][1]), Present)

\* C5: a successful entry(va, level), level in 1..4, returns the slot found
\* by indexing the root with bits 39-47 of va, the linked level-3 table with
\* bits 30-38, the level-2 table with bits 21-29 and the level-1 table with
\* bits 12-20 (bits 48-63 play no part); from a zeroed root and an allocator
\* at 0x1000, entry(0xffff_8000_0000_0000, 1) links the frames 0x1000,
\* 0x2000, 0x3000 through root index 256, index 0 and index 0 and returns
\* index 0 of the table at 0x3000.
C5_SlotLocation ==
    (pc = "done" /\ result.kind = "Ok" /\ level \in 1 .. 4)
        => /\ result.slot = SlotByBits(virt_addr, level)
           /\ (rootZero /\ virt_addr = VA_TEST /\ level = 1
               /\ current_addr = FrameAddr(4))
                => /\ address(mem[pt4_addr][256]) = FrameAddr(1)
                   /\ address(mem[translate_address(FrameAddr(1))][0]) = FrameAddr(2)
                   /\ address(mem[translate_address(FrameAddr(2))][0]) = FrameAddr(3)
                   /\ result.slot = <<translate_address(FrameAddr(3)), 0>>

C5_Witness ==
    /\ pc = "done" /\ result.kind = "Ok" /\ level = 1
    /\ rootZero /\ virt_addr = VA_TEST /\ current_addr = FrameAddr(4)
    /\ result.slot = <<translate_address(FrameAddr(3)), 0>>

\* C6: set_address(A) is accepted exactly when A is 4 KiB aligned and below
\* 0xfff0_0000_0000_0000; when accepted, address() then returns A; when
\* rejected, the entry word is unchanged.
C6_AddressRoundTrip ==
    eop.kind = "set_address"
        => IF eop.arg \cap (0 .. 11) = {} /\ ~((52 .. 63) \subseteq eop.arg)
           THEN ~eop.halted /\ address(e) = eop.arg
           ELSE eop.halted /\ e = eop.before

\* C7: set_bit(flag) then bit(flag) is true, unset_bit(flag) then bit(flag)
\* is false, and every other bit of the word is as before the operation.
C7_FlagRoundTrip ==
    /\ eop.kind = "set_bit"
        => \E b \in Bit : /\ eop.arg = {b}
                          /\ bit(e, b)
                          /\ e \ {b} = eop.before \ {b}
    /\ eop.kind = "unset_bit"
        => \E b \in Bit : /\ eop.arg = {b}
                          /\ ~bit(e, b)
                          /\ e \ {b} = eop.before \ {b}

C7_Witness ==
    /\ eop.kind = "unset_bit" /\ eop.arg = {Noexec}
    /\ eop.before = SampleBits
    /\ e = SampleBits \ {Noexec}

\* C8: a call with level outside 1..4 halts in the precondition check: it
\* returns no result, never invokes the allocator, and gets no further.
C8_LevelPrecondition ==
    (pc # "idle" /\ level \notin 1 .. 4)
        => (pc = "panic" /\ result.kind = "None" /\ allocCalls = 0)

\* C9: whenever descend_entry reads an entry's address to dereference it as
\* a sub-table, the entry is Present and not Huge.
C9_NoDescentThroughHuge ==
    pc = "descend" => (bit(CurEntry, Present) /\ ~bit(CurEntry, Huge))

\* C10: the frame of a new sub-table is all zero before the parent entry's
\* address is written and before its Present bit is set, and the table the
\* entry references is all zero at the moment Present has been set.
C10_ZeroBeforeLink ==
    /\ pc \in {"set_address", "set_present"}
          => AllZero(mem[translate_address(frame)])
    /\ pc = "set_writable"
          => /\ bit(CurEntry, Present)
             /\ address(CurEntry) = frame
             /\ AllZero(mem[Linked(cur)])

C10_Witness ==
    /\ pc = "set_writable" /\ bit(CurEntry, Present)
    /\ allocCalls = 3 /\ AllZero(mem[Linked(cur)])

====
